---- MODULE Spec2Model ----
(***************************************************************************)
(* The gesture-to-transform engine of src/app.js: the pointers map, the    *)
(* transform state, the gesture-start snapshot and the handlers that       *)
(* change them (pointer path, touch path, reset button, image-load fit).   *)
(*                                                                         *)
(* Numbers.  Contact coordinates are integers (client pixels).  tx, ty and *)
(* rot are integers: the contact positions are drawn from Points, whose    *)
(* coordinates are multiples of 100 (midpoints are multiples of 50) and    *)
(* whose pairwise directions are multiples of 45 degrees, where atan2 in   *)
(* degrees is exact.  A distance between two such points can be            *)
(* irrational (100 * sqrt 2), so the model keeps every scale as its        *)
(* SQUARE, an exact rational <<num, den>> in lowest terms: field scale2 of *)
(* the model is state.scale ^ 2 of the program.  Squaring is monotone on   *)
(* the non-negative numbers, so min, max, clamp and comparisons commute    *)
(* with it; products and quotients do too.                                 *)
(***************************************************************************)
EXTENDS Integers, Sequences, FiniteSets, TLC

\* ------------------------------------------------------------------ bounds

\* Handler invocations explored from the initial state with every listener
\* enabled (Spec).
MaxSteps == 3
\* The same with the pointer events path, reset and fit only (PointerSpec).
MaxPointerSteps == 5
\* The same with the pointer events path alone (GestureSpec).
MaxGestureSteps == 5
\* Finger events explored where one finger is reported by both event
\* families (FingerSpec).
MaxFingerSteps == 3
\* Handler invocations explored in the variant src/unnamed/part_000
\* (VariantSpec).
MaxVariantSteps == 3

\* Contact ids: pointerId and Touch.identifier are keys of the same Map.
Ids == {1, 2, 3}

\* ------------------------------------------------------- exact rationals

RECURSIVE GCD(_, _)
GCD(a, b) == IF b = 0 THEN a ELSE GCD(b, a % b)

\* The rational n/d (n >= 0, d > 0) in lowest terms.
Q(n, d) == LET g == GCD(n, d) IN <<n \div g, d \div g>>

MulQ(p, q) == Q(p[1] * q[1], p[2] * q[2])
LeQ(p, q) == p[1] * q[2] <= q[1] * p[2]
MinQ(p, q) == IF LeQ(p, q) THEN p ELSE q
MaxQ(p, q) == IF LeQ(p, q) THEN q ELSE p

\* ------------------------------------------------------- inputs

Pt(x, y) == [x |-> x, y |-> y]

\* Contact positions delivered by the events (clientX, clientY).
Points == {Pt(0, 0), Pt(100, 0), Pt(200, 0), Pt(100, 100)}

\* (naturalWidth, naturalHeight, frame width, frame height) of an image load.
Fits == {<<2000, 1000, 800, 800>>, <<10, 10, 800, 800>>}

\* One entry of the pointers map: id -> {x, y}.
Contact(i, p) == [id |-> i, x |-> p.x, y |-> p.y]

IdsOf(seq) == {seq[k].id : k \in 1..Len(seq)}

\* Touch.identifier of the touches the touch events report: two of the
\* ids (pointerIds range over all of Ids).
TouchIds == {1, 2}
TouchContacts == {Contact(i, p) : i \in TouchIds, p \in Points}

\* A TouchList of n touches: distinct identifiers, listed in ascending order.
TouchLists(n) ==
  {t \in [1..n -> TouchContacts] :
     \A j, k \in 1..n : j < k => t[j].id < t[k].id}

\* e.changedTouches of a touchstart: the touch that landed.
StartedTouches == TouchLists(1)
\* e.touches of a touchmove: every touch on the surface, one or two.
MovedTouches == TouchLists(1) \cup TouchLists(2)
\* The identifiers of e.changedTouches of a touchend / touchcancel.
EndedTouches == {S \in SUBSET TouchIds : Cardinality(S) \in {1, 2}}

\* ------------------------------------------------------- state

VARIABLES
  state,         \* { tx, ty, scale, rot }; scale kept as its square, scale2
  pointers,      \* the Map id -> {x, y}, as the sequence of its entries in
                 \* insertion order (the order [...pointers.values()] yields)
  gestureStart,  \* null, or the snapshot { tx, ty, scale, rot, p0, p1 }
  overlay,       \* the transform last written to overlay.style.transform
  last,          \* the handler that ran last and what its recompute did
  putDown,       \* history: the ids a down event (pointerdown, touchstart)
                 \* put down and no up event has taken up since
  steps          \* handler invocations left to explore

vars == <<state, pointers, gestureStart, overlay, last, putDown, steps>>

\* let gestureStart = null
NULL == [null |-> TRUE]
\* overlay.style.transform before the first applyTransform()
NoTransform == [unset |-> TRUE]

\* ------------------------------------------------------- geometry helpers

\* distance(p, q) squared: Math.hypot(p.x - q.x, p.y - q.y) ^ 2.
distance2(p, q) == (p.x - q.x) * (p.x - q.x) + (p.y - q.y) * (p.y - q.y)

\* Math.atan2(dy, dx) * 180 / Math.PI on the directions where it is exact.
atan2deg(dy, dx) ==
  CASE dy = 0 /\ dx >= 0        -> 0
    [] dy = 0 /\ dx < 0         -> 180
    [] dx = 0 /\ dy > 0         -> 90
    [] dx = 0 /\ dy < 0         -> -90
    [] dy = dx /\ dx > 0        -> 45
    [] dy = -dx /\ dx < 0       -> 135
    [] dy = dx /\ dx < 0        -> -135
    [] dy = -dx /\ dx > 0       -> -45

angle(p, q) == atan2deg(q.y - p.y, q.x - p.x)

\* A midpoint that forgets the second contact.
midpointOfFirst(p, q) == p

\* midpoint(p, q): both coordinates of Points are even, so the halves are exact.
midpoint(p, q) == Pt((p.x + q.x) \div 2, (p.y + q.y) \div 2)

\* A clamp that lost its upper bound.
clampNoUpper(v, a, b) == MaxQ(a, v)

\* clamp(v, a, b) = Math.max(a, Math.min(b, v)), on squares.
clamp(v, a, b) == MaxQ(a, MinQ(b, v))

\* The clamp bounds 0.1 and 10 of the pinch, squared.
ScaleLo2 == Q(1, 100)
ScaleHi2 == Q(100, 1)

\* ------------------------------------------------------- the Map

has(ptrs, i) == i \in IdsOf(ptrs)

\* pointers.set(id, {x, y}): an existing key keeps its place, a new key is
\* appended.
set(ptrs, c) ==
  IF has(ptrs, c.id)
  THEN [k \in 1..Len(ptrs) |-> IF ptrs[k].id = c.id THEN c ELSE ptrs[k]]
  ELSE Append(ptrs, c)

\* pointers.delete(id)
delete(ptrs, i) == SelectSeq(ptrs, LAMBDA c : c.id # i)

\* for (let t of touches) pointers.set(t.identifier, {x, y})
RECURSIVE setAll(_, _)
setAll(ptrs, touches) ==
  IF touches = <<>> THEN ptrs
  ELSE setAll(set(ptrs, Head(touches)), Tail(touches))

\* for (let t of changedTouches) pointers.delete(t.identifier)
deleteAll(ptrs, S) == SelectSeq(ptrs, LAMBDA c : c.id \notin S)

PosOf(c) == Pt(c.x, c.y)

\* ------------------------------------------------------- shared gesture math

\* snapshot(): the live transform and the first two values of the map, with
\* {x: 0, y: 0} for a missing one.
snapshot(st, ptrs) ==
  [tx |-> st.tx, ty |-> st.ty, scale2 |-> st.scale2, rot |-> st.rot,
   p0 |-> IF Len(ptrs) >= 1 THEN PosOf(ptrs[1]) ELSE Pt(0, 0),
   p1 |-> IF Len(ptrs) >= 2 THEN PosOf(ptrs[2]) ELSE Pt(0, 0)]

firstPointer(ptrs) == PosOf(ptrs[1])
firstTwo(ptrs) == <<PosOf(ptrs[1]), PosOf(ptrs[2])>>

\* The pointers.size === 1 branch: tx, ty from the snapshot and the contact.
pan(st, s, p) ==
  [st EXCEPT !.tx = s.tx + (p.x - s.p0.x),
             !.ty = s.ty + (p.y - s.p0.y)]

\* scaleChange = dist1 / (dist0 || 1), squared.
scaleChange2(dist0sq, dist1sq) ==
  Q(dist1sq, IF dist0sq = 0 THEN 1 ELSE dist0sq)

\* state.scale = clamp(s.scale * scaleChange, 0.1, 10)
pinchScale2(s, a, b) ==
  clamp(MulQ(s.scale2, scaleChange2(distance2(s.p0, s.p1), distance2(a, b))),
        ScaleLo2, ScaleHi2)

\* A rotation normalised to [-180, 180).
pinchRotWrapped(s, a, b) ==
  ((s.rot + (angle(a, b) - angle(s.p0, s.p1)) + 180) % 360) - 180

\* state.rot = s.rot + (ang1 - ang0)
pinchRot(s, a, b) == s.rot + (angle(a, b) - angle(s.p0, s.p1))

\* The branch for two or more pointers, on the first two.
pinch(s, a, b) ==
  LET c0 == midpoint(s.p0, s.p1)
      c1 == midpoint(a, b)
  IN  [tx |-> s.tx + (c1.x - c0.x),
       ty |-> s.ty + (c1.y - c0.y),
       scale2 |-> pinchScale2(s, a, b),
       rot |-> pinchRot(s, a, b)]

\* What updateTransformFromPointers() does with the map ptrs: "none" (size
\* 0, return), "throw" (gestureStart is null: reading s.p0 raises a
\* TypeError before anything is assigned), "pan" or "pinch".
recomputeKind(ptrs) ==
  IF Len(ptrs) = 0 THEN "none"
  ELSE IF gestureStart = NULL THEN "throw"
  ELSE IF Len(ptrs) = 1 THEN "pan" ELSE "pinch"

\* The transform updateTransformFromPointers() leaves behind.
recompute(ptrs) ==
  LET kind == recomputeKind(ptrs)
  IN  CASE kind = "pan" -> pan(state, gestureStart, firstPointer(ptrs))
        [] kind = "pinch" ->
             pinch(gestureStart, firstTwo(ptrs)[1], firstTwo(ptrs)[2])
        [] OTHER -> state

\* A transform string that leaves the rotation out.
applyTransformNoRotate(st) ==
  [translate |-> <<st.tx, st.ty>>, scale |-> st.scale2, rotate |-> 0]

\* applyTransform(): the string written to overlay.style.transform, as the
\* arguments of its three functions: translate(calc(-50% + tx px),
\* calc(-50% + ty px)) scale(scale) rotate(rot deg).
applyTransform(st) ==
  [translate |-> <<st.tx, st.ty>>, scale |-> st.scale2, rotate |-> st.rot]

\* updateTransformFromPointers(), with its applyTransform() on the two
\* branches that reach it.
updateTransformFromPointers(ptrs) ==
  /\ state' = recompute(ptrs)
  /\ overlay' = IF recomputeKind(ptrs) \in {"pan", "pinch"}
                THEN applyTransform(state') ELSE overlay

\* A fit without the 0.9 margin.
computeInitialScaleNoMargin2(imgW, imgH, frameW, frameH) ==
  MinQ(Q(frameW * frameW, imgW * imgW), Q(frameH * frameH, imgH * imgH))

\* computeInitialScale(imgW, imgH, frameW, frameH) squared:
\* (Math.min(frameW / imgW, frameH / imgH) * 0.9) ^ 2.
computeInitialScale2(imgW, imgH, frameW, frameH) ==
  MulQ(MinQ(Q(frameW * frameW, imgW * imgW), Q(frameH * frameH, imgH * imgH)),
       Q(81, 100))

\* ------------------------------------------------------- construction

\* const state = { tx: 0, ty: 0, scale: 1, rot: 0 }
Identity == [tx |-> 0, ty |-> 0, scale2 |-> Q(1, 1), rot |-> 0]

\* The module-level declarations of the script, with n invocations to explore.
Constructed(n) ==
  /\ state = Identity
  /\ pointers = <<>>
  /\ gestureStart = NULL
  /\ overlay = NoTransform
  /\ last = [op |-> "init", did |-> "none", n |-> 0]
  /\ putDown = {}
  /\ steps = n

Init == Constructed(MaxSteps)

\* Bookkeeping of one handler invocation: which listener ran, what it did
\* ("snapshot", "ignored", "set", or the recompute's kind) and the size of
\* the map when it was entered.
Step(op, did) ==
  /\ steps' = steps - 1
  /\ last' = [op |-> op, did |-> did, n |-> Len(pointers)]

\* ------------------------------------------------------- pointer events path

onPointerDown(i, p) ==
  /\ Step("pointerdown", "snapshot")
  /\ putDown' = putDown \cup {i}
  /\ pointers' = set(pointers, Contact(i, p))
  /\ gestureStart' = snapshot(state, pointers')
  /\ UNCHANGED <<state, overlay>>

onPointerMove(i, p) ==
  IF ~has(pointers, i)
  THEN /\ Step("pointermove", "ignored")
       /\ UNCHANGED <<state, pointers, gestureStart, overlay, putDown>>
  ELSE /\ Step("pointermove", recomputeKind(set(pointers, Contact(i, p))))
       /\ pointers' = set(pointers, Contact(i, p))
       /\ updateTransformFromPointers(pointers')
       /\ UNCHANGED <<gestureStart, putDown>>

\* pointerup, pointercancel and pointerleave
onPointerUp(i) ==
  /\ Step("pointerup", "snapshot")
  /\ putDown' = putDown \ {i}
  /\ pointers' = delete(pointers, i)
  /\ gestureStart' = snapshot(state, pointers')
  /\ UNCHANGED <<state, overlay>>

\* ------------------------------------------------------- touch events path

onTouchStart(changedTouches) ==
  /\ Step("touchstart", "snapshot")
  /\ putDown' = putDown \cup IdsOf(changedTouches)
  /\ pointers' = setAll(pointers, changedTouches)
  /\ gestureStart' = snapshot(state, pointers')
  /\ UNCHANGED <<state, overlay>>

onTouchMove(touches) ==
  /\ Step("touchmove", recomputeKind(setAll(pointers, touches)))
  /\ pointers' = setAll(pointers, touches)
  /\ updateTransformFromPointers(pointers')
  /\ UNCHANGED <<gestureStart, putDown>>

\* touchend and touchcancel
onTouchEnd(changedIds) ==
  /\ Step("touchend", "snapshot")
  /\ putDown' = putDown \ changedIds
  /\ pointers' = deleteAll(pointers, changedIds)
  /\ gestureStart' = snapshot(state, pointers')
  /\ UNCHANGED <<state, overlay>>

\* ------------------------------------------------------- reset and fit

\* A reset that forgets state.scale.
resetStateKeepsScale == [state EXCEPT !.tx = 0, !.ty = 0, !.rot = 0]

\* state.tx = 0; state.ty = 0; state.scale = 1; state.rot = 0
resetState == [tx |-> 0, ty |-> 0, scale2 |-> Q(1, 1), rot |-> 0]

\* resetBtn click
resetClick ==
  /\ Step("reset", "set")
  /\ state' = resetState
  /\ overlay' = applyTransform(state')
  /\ UNCHANGED <<pointers, gestureStart, putDown>>

\* state.tx = 0; state.ty = 0; state.scale = fitScale; state.rot = 0
fitState(fitScale2) == [tx |-> 0, ty |-> 0, scale2 |-> fitScale2, rot |-> 0]

\* overlay.onload after a file was chosen
overlayOnload(f) ==
  /\ Step("fit", "set")
  /\ state' = fitState(computeInitialScale2(f[1], f[2], f[3], f[4]))
  /\ overlay' = applyTransform(state')
  /\ UNCHANGED <<pointers, gestureStart, putDown>>

\* ------------------------------------------------------- specification

\* An event is delivered while invocations are left to explore.
Budget == steps > 0

\* The events the browser delivers to the listeners, with their payloads.
PointerDown == Budget /\ \E i \in Ids, p \in Points : onPointerDown(i, p)
PointerMove == Budget /\ \E i \in Ids, p \in Points : onPointerMove(i, p)
PointerUp == Budget /\ \E i \in Ids : onPointerUp(i)
TouchStart == Budget /\ \E t \in StartedTouches : onTouchStart(t)
TouchMove == Budget /\ \E t \in MovedTouches : onTouchMove(t)
TouchEnd == Budget /\ \E S \in EndedTouches : onTouchEnd(S)
ResetClick == Budget /\ resetClick
ImageLoad == Budget /\ \E f \in Fits : overlayOnload(f)

\* Every listener the script registers (supportsPointer true: both paths).
Next ==
  \/ PointerDown
  \/ PointerMove
  \/ PointerUp
  \/ TouchStart
  \/ TouchMove
  \/ TouchEnd
  \/ ResetClick
  \/ ImageLoad

Spec == Init /\ [][Next]_vars

\* The pointer events path, reset and fit alone, explored deeper.
PointerInit == Constructed(MaxPointerSteps)

PointerNext ==
  \/ PointerDown
  \/ PointerMove
  \/ PointerUp
  \/ ResetClick
  \/ ImageLoad

PointerSpec == PointerInit /\ [][PointerNext]_vars

\* The pointer events path alone: gestures, with no reset or fit between
\* them.
GestureInit == Constructed(MaxGestureSteps)

GestureNext ==
  \/ PointerDown
  \/ PointerMove
  \/ PointerUp

GestureSpec == GestureInit /\ [][GestureNext]_vars

\* ------------------------------------------------------- fingers
\* A browser with both PointerEvent and TouchEvent reports every finger on
\* the frame twice: supportsPointer registers the pointer listeners, and the
\* touch listeners are registered unconditionally.

Fingers == {1, 2}

\* The ids the browser gives finger f in either family: pointerIds of
\* touches count on from the mouse's, Touch.identifiers count from 0.
PointerIdOf(f) == f + 1
TouchIdOf(f) == f - 1

\* The fingers between their pointerdown and their pointerup.
FingersOnSurface == {f \in Fingers : PointerIdOf(f) \in putDown}

\* e.touches of the touchmove that reports finger f at p: every finger on
\* the surface, in ascending order of identifier, the others where their
\* last touch event left them.
FingerTouches(ptrs, f, p) ==
  LET on == FingersOnSurface
      nth(k) == CHOOSE g \in on : Cardinality({h \in on : h < g}) = k - 1
      at(g) == IF g = f THEN p
               ELSE PosOf(CHOOSE e \in {ptrs[k] : k \in 1..Len(ptrs)} :
                            e.id = TouchIdOf(g))
  IN  [k \in 1..Cardinality(on) |-> Contact(TouchIdOf(nth(k)), at(nth(k)))]

\* A finger lands on the frame: pointerdown runs onPointerDown, then
\* touchstart runs onTouchStart (its snapshot replaces the first one).
fingerDown(f, p) ==
  LET afterPointerDown == set(pointers, Contact(PointerIdOf(f), p))
      changedTouches == <<Contact(TouchIdOf(f), p)>>
  IN  /\ Step("fingerdown", "snapshot")
      /\ putDown' = putDown \cup {PointerIdOf(f), TouchIdOf(f)}
      /\ pointers' = setAll(afterPointerDown, changedTouches)
      /\ gestureStart' = snapshot(state, pointers')
      /\ UNCHANGED <<state, overlay>>

\* A finger moves: pointermove runs onPointerMove, then touchmove runs
\* onTouchMove; each recomputes and writes the transform.
fingerMove(f, p) ==
  LET afterPointerMove == set(pointers, Contact(PointerIdOf(f), p))
      st1 == recompute(afterPointerMove)
      afterTouchMove == setAll(afterPointerMove,
                               FingerTouches(pointers, f, p))
      kind == recomputeKind(afterTouchMove)
  IN  /\ Step("fingermove", kind)
      /\ pointers' = afterTouchMove
      /\ state' = CASE kind = "pan" ->
                         pan(st1, gestureStart, firstPointer(afterTouchMove))
                    [] kind = "pinch" ->
                         pinch(gestureStart, firstTwo(afterTouchMove)[1],
                               firstTwo(afterTouchMove)[2])
                    [] OTHER -> st1
      /\ overlay' = IF kind \in {"pan", "pinch"}
                    THEN applyTransform(state') ELSE overlay
      /\ UNCHANGED <<gestureStart, putDown>>

\* A finger lifts: pointerup runs onPointerUp, then touchend runs
\* onTouchEnd (its snapshot replaces the first one).
fingerUp(f) ==
  LET afterPointerUp == delete(pointers, PointerIdOf(f))
  IN  /\ Step("fingerup", "snapshot")
      /\ putDown' = putDown \ {PointerIdOf(f), TouchIdOf(f)}
      /\ pointers' = deleteAll(afterPointerUp, {TouchIdOf(f)})
      /\ gestureStart' = snapshot(state, pointers')
      /\ UNCHANGED <<state, overlay>>

FingerDown ==
  Budget /\ \E f \in Fingers \ FingersOnSurface, p \in Points : fingerDown(f, p)
FingerMove ==
  Budget /\ \E f \in FingersOnSurface, p \in Points : fingerMove(f, p)
FingerUp == Budget /\ \E f \in FingersOnSurface : fingerUp(f)

FingerInit == Constructed(MaxFingerSteps)

FingerNext ==
  \/ FingerDown
  \/ FingerMove
  \/ FingerUp
  \/ ResetClick

FingerSpec == FingerInit /\ [][FingerNext]_vars

\* ------------------------------------------------------- src/unnamed/part_000
\* The variant declares onPointerDown, onPointerMove and onPointerUp twice
\* in the one function scope of the script (lines 87-135 and 238-256).
\* Function declarations are hoisted and the last one of a name wins, so
\* the addEventListener calls of lines 81-85 bind the declarations of
\* lines 238-256.  inUI is isInUI(e.target).

\* onPointerDown, lines 238-244
variantOnPointerDown(i, p, inUI) ==
  IF inUI
  THEN /\ Step("pointerdown", "ignored")
       /\ UNCHANGED <<state, pointers, gestureStart, overlay, putDown>>
  ELSE /\ Step("pointerdown", "snapshot")
       /\ putDown' = putDown \cup {i}
       /\ pointers' = set(pointers, Contact(i, p))
       /\ gestureStart' = snapshot(state, pointers')
       /\ UNCHANGED <<state, overlay>>

\* onPointerMove, lines 245-250: after the two guards only a comment
\* ("existing move logic") and e.preventDefault(): no pointers.set, no
\* assignment to state, no applyTransform.
variantOnPointerMove(i, p, inUI) ==
  /\ Step("pointermove", IF inUI \/ ~has(pointers, i) THEN "ignored" ELSE "none")
  /\ UNCHANGED <<state, pointers, gestureStart, overlay, putDown>>

\* onPointerUp, lines 251-256
variantOnPointerUp(i, inUI) ==
  IF inUI
  THEN /\ Step("pointerup", "ignored")
       /\ UNCHANGED <<state, pointers, gestureStart, overlay, putDown>>
  ELSE /\ Step("pointerup", "snapshot")
       /\ putDown' = putDown \ {i}
       /\ pointers' = delete(pointers, i)
       /\ gestureStart' = snapshot(state, pointers')
       /\ UNCHANGED <<state, overlay>>

\* overlay.onload, lines 51-60: the fit uses the viewport (window.innerWidth,
\* window.innerHeight) as the frame.
variantOverlayOnload(f) ==
  /\ Step("fit", "set")
  /\ state' = fitState(computeInitialScale2(f[1], f[2], f[3], f[4]))
  /\ overlay' = applyTransform(state')
  /\ UNCHANGED <<pointers, gestureStart, putDown>>

VariantPointerDown ==
  Budget /\ \E i \in Ids, p \in Points, inUI \in BOOLEAN :
              variantOnPointerDown(i, p, inUI)
VariantPointerMove ==
  Budget /\ \E i \in Ids, p \in Points, inUI \in BOOLEAN :
              variantOnPointerMove(i, p, inUI)
VariantPointerUp ==
  Budget /\ \E i \in Ids, inUI \in BOOLEAN : variantOnPointerUp(i, inUI)
VariantImageLoad == Budget /\ \E f \in Fits : variantOverlayOnload(f)

VariantInit == Constructed(MaxVariantSteps)

\* The listeners of the variant; its reset handler (lines 267-272) is that
\* of app.js.
VariantNext ==
  \/ VariantPointerDown
  \/ VariantPointerMove
  \/ VariantPointerUp
  \/ ResetClick
  \/ VariantImageLoad

VariantSpec == VariantInit /\ [][VariantNext]_vars

\* ------------------------------------------------------- properties

InRange(scale2) == LeQ(ScaleLo2, scale2) /\ LeQ(scale2, ScaleHi2)

\* A handler that changed the number of entries of the map and took the
\* snapshot has just run.
CountChanged == last.did = "snapshot" /\ last.n # Len(pointers)

\* C1: in every reachable state, state.scale lies in [0.1, 10].
\* (Refuted: the image-load fit stores computeInitialScale() unclamped.)
C1_ScaleAlwaysInRange == InRange(state.scale2)

\* C2: snapshot continuity.  When the handler that ran last changed the
\* number of active contacts, a recompute that finds every contact where
\* it was leaves (tx, ty, scale, rot) as it was.
\* (Refuted: two contacts at the same point have dist0 = 0, the guard makes
\* the ratio 0 / 1 and the scale drops to 0.1.)
C2_SnapshotContinuity ==
  [][(CountChanged /\ last'.did \in {"pan", "pinch"} /\ pointers' = pointers)
       => state' = state]_vars

\* C3: pan-only.  With exactly one active contact, a move of that contact
\* by (dx, dy) changes (tx, ty) by exactly (dx, dy) from their values just
\* before the move and leaves scale and rot alone, whatever happened since
\* the contact went down.
\* (Refuted: after a reset or a fit during the pan, the next move recomputes
\* from the old snapshot and undoes it.)
C3_PanOnly ==
  [][(/\ Len(pointers) = 1
      /\ Len(pointers') = 1
      /\ pointers'[1].id = pointers[1].id
      /\ last'.did = "pan")
       => /\ state'.tx - state.tx = pointers'[1].x - pointers[1].x
          /\ state'.ty - state.ty = pointers'[1].y - pointers[1].y
          /\ state'.scale2 = state.scale2
          /\ state'.rot = state.rot]_vars

\* C4: immediately after every recompute performed with two or more active
\* contacts, scale is within [0.1, 10], a snapshot distance of 0 included.
C4_PinchScaleClamped == last.did = "pinch" => InRange(state.scale2)

\* C4 witness: a pinch whose snapshot distance is 0 (denominator 1) and
\* whose ratio saturates the scale at 10.
C4_Witness ==
  /\ last.did = "pinch"
  /\ Len(pointers) >= 2
  /\ distance2(gestureStart.p0, gestureStart.p1) = 0
  /\ distance2(PosOf(pointers[1]), PosOf(pointers[2])) > 0
  /\ state.scale2 = <<100, 1>>

\* C5: after every reset click the transform is tx = 0, ty = 0, scale = 1,
\* rot = 0, whatever the contact set and the state before; a second reset
\* therefore leaves the same state.
C5_ResetIsIdentity ==
  last.op = "reset" =>
    state = [tx |-> 0, ty |-> 0, scale2 |-> <<1, 1>>, rot |-> 0]

\* C5 witness: a reset in the middle of a pan: one active contact, away
\* from where the snapshot saw it (so tx or ty was not 0 before the click).
C5_Witness ==
  /\ last.op = "reset"
  /\ Len(pointers) = 1
  /\ gestureStart # NULL
  /\ PosOf(pointers[1]) # gestureStart.p0
  /\ state.tx = 0 /\ state.ty = 0

\* C6: a move event for an id that is not in the active contact set is a
\* silent no-op on both paths: a pointermove of an untracked pointerId, and
\* a touchmove none of whose touches is tracked, leave the contact set, the
\* transform and the snapshot alone.
\* (Refuted: onTouchMove sets every touch of e.touches without any has().)
C6_UnknownMoveIsNoOp ==
  [][(\/ \E i \in Ids, p \in Points : ~has(pointers, i) /\ onPointerMove(i, p)
      \/ \E t \in MovedTouches :
           IdsOf(t) \cap IdsOf(pointers) = {} /\ onTouchMove(t))
       => UNCHANGED <<pointers, state, gestureStart>>]_vars

\* C7: an up / cancel / leave event for an id that is not in the active
\* contact set leaves the contact set, the transform and the snapshot alone.
\* (Refuted: onPointerUp and onTouchEnd retake the snapshot unconditionally.)
C7_UnknownUpIsNoOp ==
  [][(\/ \E i \in Ids : ~has(pointers, i) /\ onPointerUp(i)
      \/ \E S \in EndedTouches :
           S \cap IdsOf(pointers) = {} /\ onTouchEnd(S))
       => UNCHANGED <<pointers, state, gestureStart>>]_vars

\* C8: while the contact set is empty, no move or up event changes the
\* transform.
\* (Refuted: a touchmove inserts its touches and recomputes.)
C8_IdleIsFrozen ==
  [][(/\ pointers = <<>>
      /\ last'.op \in {"pointermove", "pointerup", "touchmove", "touchend"})
       => state' = state]_vars

\* C9: after a recompute with two active contacts at a and b and snapshot
\* s, tx = s.tx + (mid(a,b).x - mid(p0,p1).x), the same for ty,
\* rot = s.rot + (angle(a,b) - angle(p0,p1)) and, for dist(p0,p1) # 0,
\* scale = clamp(s.scale * dist(a,b) / dist(p0,p1), 0.1, 10).  Written out
\* in integers: midpoints doubled, the scale squared and cross-multiplied.
C9_PinchFormula ==
  (last.did = "pinch" /\ Len(pointers) = 2) =>
    LET s  == gestureStart
        a  == pointers[1]
        b  == pointers[2]
        d0 == (s.p0.x - s.p1.x) * (s.p0.x - s.p1.x)
                + (s.p0.y - s.p1.y) * (s.p0.y - s.p1.y)
        d1 == (a.x - b.x) * (a.x - b.x) + (a.y - b.y) * (a.y - b.y)
        \* (s.scale * dist1 / dist0) ^ 2 = num / den, dist1^2 / dist0^2 reduced
        g   == GCD(d1, d0)
        num == s.scale2[1] * (d1 \div g)
        den == s.scale2[2] * (d0 \div g)
    IN  /\ 2 * (state.tx - s.tx) = (a.x + b.x) - (s.p0.x + s.p1.x)
        /\ 2 * (state.ty - s.ty) = (a.y + b.y) - (s.p0.y + s.p1.y)
        /\ state.rot = s.rot + (angle(PosOf(a), PosOf(b)) - angle(s.p0, s.p1))
        /\ d0 # 0 =>
             /\ 100 * num < den => state.scale2 = <<1, 100>>
             /\ num > 100 * den => state.scale2 = <<100, 1>>
             /\ (100 * num >= den /\ num <= 100 * den) =>
                  state.scale2[1] * den = num * state.scale2[2]

\* C9 witness: the scenario of the specification: from {0, 0, 1, 0} with
\* A(0,0) and B(100,0) down, B moved to (200,0): scale 2, rot 0, tx 50, ty 0.
C9_Witness ==
  /\ last.did = "pinch"
  /\ Len(pointers) = 2
  /\ gestureStart = [tx |-> 0, ty |-> 0, scale2 |-> <<1, 1>>, rot |-> 0,
                     p0 |-> Pt(0, 0), p1 |-> Pt(100, 0)]
  /\ PosOf(pointers[1]) = Pt(0, 0)
  /\ PosOf(pointers[2]) = Pt(200, 0)
  /\ state = [tx |-> 50, ty |-> 0, scale2 |-> <<4, 1>>, rot |-> 0]

\* C10: rotation is purely additive and never wrapped.  Every two-finger
\* recompute sets rot to the snapshot's rot plus (current angle - snapshot
\* angle), every snapshot carries the live rot over unchanged, and neither
\* a snapshot nor a pan touches rot: across gestures rot is the initial rot
\* plus the sum of the gestures' angle differences.
C10_RotationAdditive ==
  [][/\ last'.did = "pinch" =>
          state'.rot = gestureStart.rot
                         + (atan2deg(pointers'[2].y - pointers'[1].y,
                                     pointers'[2].x - pointers'[1].x)
                            - atan2deg(gestureStart.p1.y - gestureStart.p0.y,
                                       gestureStart.p1.x - gestureStart.p0.x))
     /\ last'.did = "snapshot" =>
          (gestureStart'.rot = state.rot /\ state'.rot = state.rot)
     /\ last'.did = "pan" => state'.rot = state.rot]_vars

\* C10 witness: a second 90 degree gesture on top of a first one, a third
\* contact having gone down in between: the snapshot holds rot = 90, the
\* first two contacts have turned by 90 degrees since, and rot is 180.
C10_Witness ==
  /\ last.did = "pinch"
  /\ Len(pointers) = 3
  /\ gestureStart.rot = 90
  /\ angle(PosOf(pointers[1]), PosOf(pointers[2]))
       - angle(gestureStart.p0, gestureStart.p1) = 90
  /\ state.rot = 180

\* C11: every change of the transform is emitted within the handler that
\* made it: after every handler that recomputed, reset or fitted, the
\* transform last written to the overlay is the current (tx, ty, scale,
\* rot); and as long as nothing was written, the transform is still the
\* initial one.
C11_EmittedIsCurrent ==
  LET current == [translate |-> <<state.tx, state.ty>>,
                  scale |-> state.scale2, rotate |-> state.rot]
  IN  /\ last.did \in {"pan", "pinch", "set"} => overlay = current
      /\ overlay = current \/ (overlay = NoTransform /\ state = Identity)

\* C11 witness: a two-finger recompute that turned the image by 90 degrees
\* and wrote rotate(90deg).
C11_Witness ==
  /\ last.did = "pinch"
  /\ state.rot = 90
  /\ overlay # NoTransform
  /\ overlay.rotate = 90

\* The ids of the contacts firstTwo() selects.
FirstSecondIds(ptrs) == <<ptrs[1].id, ptrs[2].id>>

\* The map after another history that ends with the same members at the
\* same positions: from the empty map, one pointerdown per member, in
\* ascending order of id.
RECURSIVE DownsAscending(_, _)
DownsAscending(ptrs, S) ==
  IF S = {} THEN <<>>
  ELSE LET m == CHOOSE i \in S : \A j \in S : j <= i
           c == CHOOSE e \in {ptrs[k] : k \in 1..Len(ptrs)} : e.id = m
       IN  set(DownsAscending(ptrs, S \ {m}), c)

\* C12: the (first, second) pair depends on the membership of the contact
\* set only: the history that led here selects the same two contacts as
\* the history that put the same members down in ascending order of id.
\* (Refuted: the Map yields its values in insertion order.)
C12_PairFromMembership ==
  Len(pointers) >= 2 =>
    FirstSecondIds(pointers)
      = FirstSecondIds(DownsAscending(pointers, IdsOf(pointers)))

\* C13: one stream of contact events: a single finger on the surface is
\* never held in the map by two entries, so one finger gives contact
\* count 1.
\* (Refuted: with PointerEvent supported both listener families are
\* registered, and the finger is stored under its pointerId and under its
\* Touch.identifier.)
C13_OneFingerOneEntry ==
  Cardinality(FingersOnSurface) = 1 => Len(pointers) = 1

\* C14: once every contact that a down event put down has had its up /
\* cancel / leave event, the contact set is empty (Idle).
\* (Refuted: a touchmove also inserts the touches of e.touches that no
\* touchstart of this listener put down.)
C14_AllUpIsIdle == putDown = {} => pointers = <<>>

\* C15: an image-load fit of a W x H image into an FW x FH frame sets
\* tx = 0, ty = 0, rot = 0 and scale = min(FW / W, FH / H) * 0.9, and
\* emits that transform; a 2000 x 1000 image in an 800 x 800 frame gets
\* scale 0.36 (square 81 / 625).  The scale is compared squared:
\* FW / W <= FH / H iff FW * H <= FH * W, and 0.9 ^ 2 = 81 / 100.
C15_FitFormula ==
  [][\A f \in Fits :
       overlayOnload(f) =>
         LET W  == f[1]
             H  == f[2]
             FW == f[3]
             FH == f[4]
             num == IF FW * H <= FH * W THEN 81 * FW * FW ELSE 81 * FH * FH
             den == IF FW * H <= FH * W THEN 100 * W * W ELSE 100 * H * H
             g   == GCD(num, den)
         IN  /\ state'.tx = 0 /\ state'.ty = 0 /\ state'.rot = 0
             /\ state'.scale2 = <<num \div g, den \div g>>
             /\ f = <<2000, 1000, 800, 800>> => state'.scale2 = <<81, 625>>
             /\ overlay' = [translate |-> <<0, 0>>, scale |-> state'.scale2,
                            rotate |-> 0]]_vars

\* C15 witness: the 2000 x 1000 image was fitted, during a pan that had
\* moved the overlay: scale 0.36 at tx = ty = 0.
C15_Witness ==
  /\ last.op = "fit"
  /\ Len(pointers) = 1
  /\ gestureStart # NULL
  /\ PosOf(pointers[1]) # gestureStart.p0
  /\ state = [tx |-> 0, ty |-> 0, scale2 |-> <<81, 625>>, rot |-> 0]

\* C16: a recompute uses a snapshot taken after the most recent change of
\* membership.  No handler that recomputes retakes the snapshot, so the
\* handler that runs the recompute must not have changed the set of active
\* ids before it: the ids at recompute time are those the handler found.
\* (Refuted on the touch path: onTouchMove adds ids and recomputes at once.)
C16_SnapshotMatchesMembership ==
  [][last'.did \in {"pan", "pinch"}
       => IdsOf(pointers') = IdsOf(pointers)]_vars

\* The transform of the run that takes the snapshot s and then moves the
\* contacts straight to where ptrs has them, nothing else in between: a pan
\* leaves the scale and rot the snapshot recorded, a pinch sets all four.
DirectTransform(s, ptrs) ==
  IF Len(ptrs) = 1
  THEN [tx |-> s.tx + (ptrs[1].x - s.p0.x),
        ty |-> s.ty + (ptrs[1].y - s.p0.y),
        scale2 |-> s.scale2,
        rot |-> s.rot]
  ELSE pinch(s, PosOf(ptrs[1]), PosOf(ptrs[2]))

\* C17: after a recompute the whole transform is a function of the
\* snapshot and the current contact positions: whatever moves, resets or
\* fits came between the snapshot and the recompute, the transform is the
\* one of the run with the same snapshot and positions and nothing between.
\* (Refuted: the one-contact branch assigns tx and ty only, so scale and
\* rot keep what a reset or a fit wrote after the snapshot.)
C17_FunctionOfSnapshot ==
  last.did \in {"pan", "pinch"} => state = DirectTransform(gestureStart, pointers)

\* C18: with three or more active contacts, a move of a contact that is
\* neither the first nor the second leaves (tx, ty, scale, rot) unchanged.
\* (Refuted: the move still recomputes from the snapshot, which brings
\* back what a reset or fit replaced and, for a snapshot distance of 0,
\* collapses the scale.)
C18_ThirdContactIsInert ==
  [][(/\ Len(pointers) >= 3
      /\ \E i \in Ids, p \in Points :
           /\ has(pointers, i)
           /\ i \notin {pointers[1].id, pointers[2].id}
           /\ onPointerMove(i, p))
       => state' = state]_vars

\* C19: whenever a move handler reaches the recompute with one or more
\* contacts in the map, gestureStart is a snapshot, not null.
\* (Refuted: onTouchMove fills the map itself, so a touchmove that is the
\* first event the listeners see recomputes on gestureStart = null.)
C19_RecomputeHasSnapshot ==
  [][(/\ last'.op \in {"pointermove", "touchmove"}
      /\ last'.did # "ignored"
      /\ Len(pointers') >= 1)
       => gestureStart # NULL]_vars

\* C20: in the variant, the pointermove handler bound to the app element
\* recomputes for a tracked pointer outside the UI panel: the pointer's
\* entry takes the new position, and the transform becomes the pan (one
\* contact: tx, ty from the snapshot plus the displacement) or the pinch
\* (two or more) of the resulting map.
\* (Refuted: the bound declaration is the later one, which only returns.)
C20_VariantMoveRecomputes ==
  [][\A i \in Ids, p \in Points :
       (has(pointers, i) /\ variantOnPointerMove(i, p, FALSE)) =>
         LET moved == set(pointers, Contact(i, p))
         IN  /\ pointers' = moved
             /\ Len(moved) = 1 =>
                  /\ state'.tx = gestureStart.tx + (p.x - gestureStart.p0.x)
                  /\ state'.ty = gestureStart.ty + (p.y - gestureStart.p0.y)
             /\ Len(moved) >= 2 =>
                  state' = pinch(gestureStart, firstTwo(moved)[1],
                                 firstTwo(moved)[2])]_vars

====
